---- MODULE Spec2Model ----
(***************************************************************************)
(* Sentinel-2 tile acquisition: tile resolution (get_s2_tile_ids), the     *)
(* per-tile fetch with retry and write-then-rename (_process_single_tile), *)
(* the thread-pool coordinator (export_tiles, fetch and export-submit      *)
(* variants) and the export job polling loop (_wait_for_tasks).            *)
(*                                                                         *)
(* The cache directory is modelled as a POSIX file system: a path names an *)
(* inode, an open handle keeps its inode and its own offset, open(.., 'wb')*)
(* truncates the inode a path already names, and rename atomically moves   *)
(* the name (replacing the destination).                                   *)
(***************************************************************************)
EXTENDS Integers, Sequences, FiniteSets, TLC

\* ------------------------------------------------------------------ bounds
\* Most chunks (data or keep-alive) one HTTP response delivers.
MaxChunks == 2

\* ------------------------------------------------------- program constants
\* max_retries: int = 3
MaxRetries == 3
\* time.sleep(5 * (attempt + 1))
BaseDelay == 5

\* Tile identifiers (catalog "system:index" strings).
Tiles == {"a", "b"}
\* Invocations of the fetch for one tile: two calls (a run and a later or a
\* concurrent run sharing the cache directory).
Calls == {1, 2}
\* One worker invocation of _process_single_tile / _create_export_task.
Workers == Calls \X Tiles

TileOf(w) == w[2]

VARIABLES
    files,      \* the cache directory: path -> inode (domain: existing paths)
    inodes,     \* inode -> content, a sequence of chunks (or holes)
    wk,         \* worker -> the local state of its invocation
    ex,         \* export_tiles: the coordinator's locals
    jobs,       \* the provider's export jobs: started task -> status
    task_list,  \* self.task_list
    pl,         \* _wait_for_tasks: the polling loop's locals
    rs,         \* download / get_s2_tile_ids: the resolution's locals
    sc,         \* the export scripts' main: run -> its locals
    cr          \* init_ee_from_credentials: the credentials file and locals

vars == <<files, inodes, wk, ex, jobs, task_list, pl, rs, sc, cr>>

\* What the fetch of one tile leaves alone.
coord == <<ex, jobs, task_list, pl, rs, sc, cr>>
\* What the coordinator and the polling loop leave alone.
cache == <<files, inodes, rs, sc, cr>>

\* ------------------------------------------------------------- file system
\* cache_file = self.cache_dir / f"{s2_id}.tif"
CacheFile(t) == <<"tif", t>>
\* temp_file = cache_file.with_suffix('.tmp')
TempFile(t) == <<"tmp", t>>

\* An inode is named by the call that created it and that call's count of
\* files created.
NoIno == <<0, "", 0>>
Hole == <<0, "", 0, 0>>
\* The k-th data chunk of the response to attempt `att` of worker w.
Chunk(w, att, k) == <<w[1], w[2], att, k>>

Exists(p) == p \in DOMAIN files
Content(p) == inodes[files[p]]

\* A write of one chunk at offset pos (0-based) of a file with content c:
\* a write past the end leaves a hole.
RECURSIVE Pad(_, _)
Pad(c, n) == IF Len(c) >= n THEN c ELSE Pad(Append(c, Hole), n)
WriteAt(c, pos, ch) ==
    IF pos < Len(c) THEN [c EXCEPT ![pos + 1] = ch]
    ELSE Append(Pad(c, pos), ch)

\* os.rename(src, dst) on POSIX: dst now names src's inode, src is gone.
RenamedFiles(src, dst) ==
    [p \in (DOMAIN files \ {src}) \cup {dst} |->
        IF p = dst THEN files[src] ELSE files[p]]

\* ------------------------------------------------- _process_single_tile
IdleWorker ==
    [pc |-> "idle", attempt |-> 0, outcome |-> "", hopen |-> FALSE,
     hino |-> NoIno, hpos |-> 0, nrecv |-> 0, wrote |-> <<>>,
     sleeps |-> <<>>, net |-> FALSE, err |-> "", made |-> 0,
     partial |-> FALSE]

Running(w) == wk[w].pc \notin {"idle", "queued", "done", "killed", "raised"}

\* Leaving the with-blocks closes the file; the attempt's locals are dead.
Closed(s) ==
    [s EXCEPT !.hopen = FALSE, !.hino = NoIno, !.hpos = 0, !.nrecv = 0]

\* return cache_file (Cached / Fetched) or return None (Failed). Of the locals
\* the record keeps the attempts made, the delays slept and, for a fetch, the
\* payload it wrote (partial: a failed attempt of the call had written bytes).
Returns(w, how) ==
    [Closed(wk[w]) EXCEPT !.pc = "done", !.outcome = how,
                          !.wrote = IF how = "Fetched" THEN @ ELSE <<>>,
                          !.partial = IF how = "Fetched" THEN @ ELSE FALSE]

\* except requests.exceptions.RequestException as e
OnRequestException(w) ==
    IF wk[w].attempt = MaxRetries - 1
    THEN Returns(w, "Failed")
    ELSE [Closed(wk[w]) EXCEPT !.pc = "sleep", !.wrote = <<>>,
                               !.partial = @ \/ wk[w].wrote # <<>>]

\* (mutant) an unexpected error handled like a transport error: retried
OnExceptionRetried(w) == OnRequestException(w)

\* except Exception as e
OnException(w) == Returns(w, "Failed")

\* An exception of kind e raised inside the try block of an attempt.
Raise(w, e) ==
    IF e = "RequestException"
    THEN [OnRequestException(w) EXCEPT !.err = e]
    ELSE [OnException(w) EXCEPT !.err = e]

\* What a call to the provider can do: answer, fail in transport, fail otherwise.
RemoteOutcomes == {"ok", "RequestException", "Exception"}

\* The worker after a request to the provider (net: it has used the network).
AfterRemote(w, r, next) ==
    IF r = "ok"
    THEN [wk[w] EXCEPT !.pc = next, !.net = TRUE]
    ELSE [Raise(w, r) EXCEPT !.net = TRUE]

\* (mutant) the existence check is skipped
CheckCacheSkipped(w) ==
    /\ wk[w].pc = "check"
    /\ wk' = [wk EXCEPT ![w] = [@ EXCEPT !.pc = "scale", !.attempt = 0]]
    /\ UNCHANGED <<files, inodes, coord>>

\* if cache_file.exists(): return cache_file
CheckCache(w) ==
    /\ wk[w].pc = "check"
    /\ wk' = [wk EXCEPT ![w] =
                IF Exists(CacheFile(TileOf(w)))
                THEN Returns(w, "Cached")
                ELSE [wk[w] EXCEPT !.pc = "scale", !.attempt = 0]]
    /\ UNCHANGED <<files, inodes, coord>>

\* scale = projection.nominalScale().getInfo()
ResolveScale(w) ==
    /\ wk[w].pc = "scale"
    /\ \E r \in RemoteOutcomes :
          wk' = [wk EXCEPT ![w] = AfterRemote(w, r, "url")]
    /\ UNCHANGED <<files, inodes, coord>>

\* url = img.getDownloadURL({...})
GetDownloadURL(w) ==
    /\ wk[w].pc = "url"
    /\ \E r \in RemoteOutcomes :
          wk' = [wk EXCEPT ![w] = AfterRemote(w, r, "get")]
    /\ UNCHANGED <<files, inodes, coord>>

\* requests.get(url, stream=True, timeout=30); response.raise_for_status()
HttpGet(w) ==
    /\ wk[w].pc = "get"
    /\ \E r \in {"ok", "RequestException"} :
          wk' = [wk EXCEPT ![w] = AfterRemote(w, r, "open")]
    /\ UNCHANGED <<files, inodes, coord>>

\* (mutant) open(p, 'ab'): what the file holds is kept, writes go to its end
OpenForAppend(w, p) ==
    LET ino == IF Exists(p) THEN files[p]
               ELSE <<w[1], w[2], wk[w].made + 1>>
    IN
    /\ wk[w].pc = "open"
    /\ files' = [q \in DOMAIN files \cup {p} |-> IF q = p THEN ino ELSE files[q]]
    /\ inodes' = [i \in DOMAIN inodes \cup {ino} |->
                    IF i \in DOMAIN inodes THEN inodes[i] ELSE <<>>]
    /\ wk' = [wk EXCEPT ![w] =
                [@ EXCEPT !.pc = "stream", !.hopen = TRUE, !.hino = ino,
                          !.hpos = IF Exists(p) THEN Len(inodes[ino]) ELSE 0,
                          !.nrecv = 0, !.wrote = <<>>,
                          !.made = IF Exists(p) THEN @ ELSE @ + 1]]
    /\ UNCHANGED coord

\* open(p, 'wb'): create the file, or truncate the inode the path names.
OpenForWrite(w, p) ==
    LET ino == IF Exists(p) THEN files[p]
               ELSE <<w[1], w[2], wk[w].made + 1>>
    IN
    /\ wk[w].pc = "open"
    /\ files' = [q \in DOMAIN files \cup {p} |-> IF q = p THEN ino ELSE files[q]]
    /\ inodes' = [i \in DOMAIN inodes \cup {ino} |->
                    IF i = ino THEN <<>> ELSE inodes[i]]
    /\ wk' = [wk EXCEPT ![w] =
                [@ EXCEPT !.pc = "stream", !.hopen = TRUE, !.hino = ino,
                          !.hpos = 0, !.nrecv = 0, !.wrote = <<>>,
                          !.made = IF Exists(p) THEN @ ELSE @ + 1]]
    /\ UNCHANGED coord

\* (mutant) the payload is streamed straight into the canonical file
OpenCacheFile(w) == OpenForWrite(w, CacheFile(TileOf(w)))

\* with open(temp_file, 'wb') as f
OpenTemp(w) == OpenForWrite(w, TempFile(TileOf(w)))

\* for chunk in response.iter_content(...): if chunk: f.write(chunk)
WriteChunk(w) ==
    LET ch == Chunk(w, wk[w].attempt, Len(wk[w].wrote) + 1) IN
    /\ wk[w].pc = "stream"
    /\ wk[w].nrecv < MaxChunks
    /\ inodes' = [inodes EXCEPT ![wk[w].hino] = WriteAt(@, wk[w].hpos, ch)]
    /\ wk' = [wk EXCEPT ![w] =
                [@ EXCEPT !.nrecv = @ + 1, !.hpos = @ + 1,
                          !.wrote = Append(@, ch)]]
    /\ UNCHANGED <<files, coord>>

\* (mutant) an empty keep-alive chunk takes a place in the file
KeepAliveWritten(w) ==
    /\ wk[w].pc = "stream"
    /\ wk[w].nrecv < MaxChunks
    /\ inodes' = [inodes EXCEPT ![wk[w].hino] = WriteAt(@, wk[w].hpos, Hole)]
    /\ wk' = [wk EXCEPT ![w] = [@ EXCEPT !.nrecv = @ + 1, !.hpos = @ + 1]]
    /\ UNCHANGED <<files, coord>>

\* an empty keep-alive chunk is filtered out
SkipKeepAlive(w) ==
    /\ wk[w].pc = "stream"
    /\ wk[w].nrecv < MaxChunks
    /\ wk' = [wk EXCEPT ![w] = [@ EXCEPT !.nrecv = @ + 1]]
    /\ UNCHANGED <<files, inodes, coord>>

\* the transport fails while streaming: the file is closed by its with-block
StreamFails(w) ==
    /\ wk[w].pc = "stream"
    /\ wk' = [wk EXCEPT ![w] = Raise(w, "RequestException")]
    /\ UNCHANGED <<files, inodes, coord>>

\* the iterator is exhausted: the with-block closes the file
StreamEnds(w) ==
    /\ wk[w].pc = "stream"
    /\ wk' = [wk EXCEPT ![w] = [Closed(@) EXCEPT !.pc = "rename"]]
    /\ UNCHANGED <<files, inodes, coord>>

\* (mutant) the path is returned without the rename
RenameTempSkipped(w) ==
    /\ wk[w].pc = "rename"
    /\ wk' = [wk EXCEPT ![w] = Returns(w, "Fetched")]
    /\ UNCHANGED <<files, inodes, coord>>

\* temp_file.rename(cache_file); return cache_file
\* (FileNotFoundError when the temporary name is gone: except Exception)
RenameTemp(w) ==
    LET t == TileOf(w) IN
    /\ wk[w].pc = "rename"
    /\ IF Exists(TempFile(t))
       THEN /\ files' = RenamedFiles(TempFile(t), CacheFile(t))
            /\ wk' = [wk EXCEPT ![w] = Returns(w, "Fetched")]
       ELSE /\ files' = files
            /\ wk' = [wk EXCEPT ![w] = Raise(w, "Exception")]
    /\ UNCHANGED <<inodes, coord>>

\* (mutant) the next attempt starts at once, nothing is slept
BackoffSkipped(w) ==
    /\ wk[w].pc = "sleep"
    /\ wk' = [wk EXCEPT ![w] =
                [@ EXCEPT !.pc = "scale", !.err = "", !.attempt = @ + 1]]
    /\ UNCHANGED <<files, inodes, coord>>

\* (mutant) a fixed delay between the attempts
BackoffFixedDelay(w) ==
    /\ wk[w].pc = "sleep"
    /\ wk' = [wk EXCEPT ![w] =
                [@ EXCEPT !.pc = "scale", !.err = "",
                          !.sleeps = Append(@, BaseDelay),
                          !.attempt = @ + 1]]
    /\ UNCHANGED <<files, inodes, coord>>

\* time.sleep(5 * (attempt + 1)); next iteration of the for loop
Backoff(w) ==
    /\ wk[w].pc = "sleep"
    /\ wk' = [wk EXCEPT ![w] =
                [@ EXCEPT !.pc = "scale", !.err = "",
                          !.sleeps = Append(@, BaseDelay * (wk[w].attempt + 1)),
                          !.attempt = @ + 1]]
    /\ UNCHANGED <<files, inodes, coord>>

FetchStep(w) ==
    \/ CheckCache(w)
    \/ ResolveScale(w)
    \/ GetDownloadURL(w)
    \/ HttpGet(w)
    \/ OpenTemp(w)
    \/ WriteChunk(w)
    \/ SkipKeepAlive(w)
    \/ StreamFails(w)
    \/ StreamEnds(w)
    \/ RenameTemp(w)
    \/ Backoff(w)

\* ---------------------------------------------- one fetch at a time (runs)
\* The calls of _process_single_tile on one tile of the cache directory.
SameTile == {w \in Workers : TileOf(w) = "a"}

\* A direct call of _process_single_tile, no other call being in progress.
CallFetch(w) ==
    /\ wk[w].pc = "idle"
    /\ \A v \in Workers : ~Running(v)
    /\ wk' = [wk EXCEPT ![w] = [@ EXCEPT !.pc = "check"]]
    /\ UNCHANGED <<files, inodes, coord>>

\* The process is terminated: its handles close, its files stay as they are.
Kill(w) ==
    /\ Running(w)
    /\ wk' = [wk EXCEPT ![w] = [IdleWorker EXCEPT !.pc = "killed"]]
    /\ UNCHANGED <<files, inodes, coord>>

IdleCoordinator ==
    [pc |-> "idle", variant |-> "fetch", ids |-> {}, max_workers |-> 1,
     wait |-> FALSE, run |-> 0, results |-> <<>>, order |-> <<>>,
     seen |-> {}, i |-> 0, progress |-> <<>>]

\* ended: the tasks an earlier round of the loop has seen in a terminal state.
IdlePoll == [pc |-> "idle", states |-> <<>>, report |-> <<>>, ended |-> {}]

IdleResolve ==
    [pc |-> "idle", aoi |-> <<>>, s2_ids |-> {}, answers |-> <<>>,
     requests |-> 0, error |-> ""]

\* file: what credentials.json holds ("absent": no such file); token: the
\* EARTHENGINE_TOKEN environment variable; trace: the calls made to the
\* provider and the writes of the file, in order.
IdleCredentials ==
    [pc |-> "idle", given |-> "absent", file |-> "absent", ambient |-> FALSE,
     project |-> "", highvolume |-> FALSE, token |-> "", trace |-> <<>>,
     error |-> ""]

IdleScript == [pc |-> "idle", s2_ids |-> {}, test_tiles |-> <<>>]

InitFetch ==
    /\ files = <<>>
    /\ inodes = <<>>
    /\ wk = [w \in Workers |-> IdleWorker]
    /\ ex = IdleCoordinator
    /\ jobs = <<>>
    /\ task_list = <<>>
    /\ pl = IdlePoll
    /\ rs = IdleResolve
    /\ sc = [c \in Calls |-> IdleScript]
    /\ cr = IdleCredentials

NextFetch ==
    \E w \in SameTile : CallFetch(w) \/ FetchStep(w) \/ Kill(w)

SpecFetch == InitFetch /\ [][NextFetch]_vars

Fetched(w) == wk[w].pc = "done" /\ wk[w].outcome = "Fetched"
Failed(w) == wk[w].pc = "done" /\ wk[w].outcome = "Failed"

\* C2 (SpecFetch): a file at the canonical path <tile>.tif is the whole
\* payload of an attempt that streamed it to the temporary file and renamed
\* it, whatever failed or was killed before; without such an attempt there
\* is no file at the canonical path.
AtomicSingleFetch ==
    \A t \in Tiles :
        Exists(CacheFile(t)) =>
            \E w \in Workers :
                /\ TileOf(w) = t
                /\ Fetched(w)
                /\ Content(CacheFile(t)) = wk[w].wrote

\* C2 witness: a fetch failed or was killed after partial bytes; only the
\* temporary file holds them.
PartialBytesOnlyInTemp ==
    \E w \in Workers :
        /\ wk[w].pc = "killed" \/ Failed(w)
        /\ Exists(TempFile(TileOf(w)))
        /\ Len(Content(TempFile(TileOf(w)))) >= 1
        /\ ~Exists(CacheFile(TileOf(w)))

\* C3 (SpecFetch): the attempt index stays below max_retries, the delay
\* slept after failed attempt k (0-based) is 5 * (k + 1), a call that ends on
\* a transport error has made max_retries attempts and returns None, and at
\* that return no file is at the canonical path.
RetryBoundAndExhaustion ==
    /\ [](\A w \in Workers :
            /\ wk[w].attempt < MaxRetries
            /\ Len(wk[w].sleeps) = wk[w].attempt
            /\ \A i \in 1..Len(wk[w].sleeps) : wk[w].sleeps[i] = BaseDelay * i
            /\ (wk[w].pc = "done" /\ wk[w].err = "RequestException") =>
                    /\ wk[w].outcome = "Failed"
                    /\ wk[w].attempt = MaxRetries - 1)
    /\ [][\A w \in Workers :
            (/\ wk[w].pc # "done"
             /\ wk'[w].pc = "done"
             /\ wk'[w].err = "RequestException") =>
                CacheFile(TileOf(w)) \notin DOMAIN files']_vars

\* C3 witness: every attempt failed in transport; the call gave up after
\* the third, having slept 5 s and 10 s.
RetriesExhausted ==
    \E w \in Workers :
        /\ Failed(w)
        /\ wk[w].err = "RequestException"
        /\ wk[w].sleeps = <<BaseDelay, 2 * BaseDelay>>
        /\ ~Exists(CacheFile(TileOf(w)))

StartFetch(w) ==
    /\ wk[w].pc = "idle"
    /\ wk' = [wk EXCEPT ![w] = [@ EXCEPT !.pc = "check"]]
    /\ UNCHANGED <<files, inodes, coord>>

InitRace == InitFetch

NextRace ==
    \E w \in SameTile : StartFetch(w) \/ FetchStep(w)

SpecRace == InitRace /\ [][NextRace]_vars

\* C9 (SpecRace): under any interleaving of two workers on one tile id, at
\* most one of them wins the rename and the file at the canonical path is the
\* complete payload of one successful attempt.
RacingWritersNeverCorrupt ==
    \A t \in Tiles :
        /\ Cardinality({w \in Workers : TileOf(w) = t /\ Fetched(w)}) <= 1
        /\ Exists(CacheFile(t)) =>
                \E w \in Workers :
                    /\ TileOf(w) = t
                    /\ Fetched(w)
                    /\ Content(CacheFile(t)) = wk[w].wrote

\* C10 (SpecRace): no worker issues the download request for a tile whose
\* canonical artifact exists at the moment the request is issued.
NoRequestWhenCached ==
    [][\A w \in Workers :
        (wk[w].pc = "get" /\ wk'[w].pc # "get") =>
            ~Exists(CacheFile(TileOf(w)))]_vars

\* ------------------------------------------------------ _wait_for_tasks
\* The states counted by the polling loop; the last three end a job.
JobStates == {"READY", "RUNNING", "COMPLETED", "FAILED", "CANCELED"}
Terminal == {"COMPLETED", "FAILED", "CANCELED"}

\* What status['error_message'] of a failed job can be ("": the key is absent).
ErrorMessages == {"", "quota exceeded"}

\* task.status() of a task that was just started
ReadyStatus == [state |-> "READY", error_message |-> ""]

\* The provider moves a job READY -> RUNNING -> COMPLETED | FAILED | CANCELED.
JobAdvance(j) ==
    /\ j \in DOMAIN jobs
    /\ \/ /\ jobs[j].state = "READY"
          /\ jobs' = [jobs EXCEPT ![j].state = "RUNNING"]
       \/ /\ jobs[j].state = "RUNNING"
          /\ \E st \in {"COMPLETED", "CANCELED"} :
                jobs' = [jobs EXCEPT ![j].state = st]
       \/ /\ jobs[j].state = "RUNNING"
          /\ \E m \in ErrorMessages :
                jobs' = [jobs EXCEPT ![j] =
                            [state |-> "FAILED", error_message |-> m]]
    /\ UNCHANGED <<cache, wk, ex, task_list, pl>>

\* _wait_for_tasks is entered: if not self.task_list: return
WaitCall(tl) ==
    [IdlePoll EXCEPT !.pc = IF tl = <<>> THEN "returned" ELSE "poll"]

\* (mutant) any() for all(): the loop ends when one job has ended
SomeTerminal(states) == \E k \in 1..Len(states) : states[k] \in Terminal

\* all(state in ['COMPLETED', 'FAILED', 'CANCELED'] for state in states)
AllTerminal(states) == \A k \in 1..Len(states) : states[k] \in Terminal

\* a direct call of _wait_for_tasks
WaitForTasks ==
    /\ pl.pc = "idle"
    /\ pl' = WaitCall(task_list)
    /\ UNCHANGED <<cache, wk, ex, jobs, task_list>>

\* statuses = [task.status() for task in self.task_list]: one request
PollStatus ==
    /\ pl.pc = "poll"
    /\ Len(pl.states) < Len(task_list)
    /\ pl' = [pl EXCEPT !.states =
                Append(@, jobs[task_list[Len(pl.states) + 1]].state)]
    /\ UNCHANGED <<cache, wk, ex, jobs, task_list>>

\* (mutant) the loop gives up after the round, whatever the states
EndRoundTimedOut ==
    /\ pl.pc = "poll"
    /\ Len(pl.states) = Len(task_list)
    /\ pl' = [pl EXCEPT !.pc = "report"]
    /\ UNCHANGED <<cache, wk, ex, jobs, task_list>>

\* the counts are logged; break when all are terminal, else go to sleep
EndRound ==
    /\ pl.pc = "poll"
    /\ Len(pl.states) = Len(task_list)
    /\ pl' = [pl EXCEPT !.pc = IF AllTerminal(pl.states) THEN "report"
                                ELSE "sleep",
                        !.ended = @ \cup {task_list[k] : k \in
                                    {i \in 1..Len(pl.states) :
                                        pl.states[i] \in Terminal}}]
    /\ UNCHANGED <<cache, wk, ex, jobs, task_list>>

\* time.sleep(poll_interval); the next round of while True
PollSleep ==
    /\ pl.pc = "sleep"
    /\ pl' = [pl EXCEPT !.pc = "poll", !.states = <<>>]
    /\ UNCHANGED <<cache, wk, ex, jobs, task_list>>

\* (mutant) the final line of a job that did not complete drops its message
FinalLineNoMessage(j, status) ==
    IF status.state = "COMPLETED"
    THEN [task |-> j, state |-> "COMPLETED", message |-> ""]
    ELSE [task |-> j, state |-> status.state, message |-> "No error message"]

\* The line logged for one task after the loop.
FinalLine(j, status) ==
    IF status.state = "COMPLETED"
    THEN [task |-> j, state |-> "COMPLETED", message |-> ""]
    ELSE [task |-> j, state |-> status.state,
          message |-> IF status.error_message = "" THEN "No error message"
                      ELSE status.error_message]

\* for task in self.task_list: status = task.status(); log it
ReportStatus ==
    /\ pl.pc = "report"
    /\ Len(pl.report) < Len(task_list)
    /\ LET j == task_list[Len(pl.report) + 1] IN
          pl' = [pl EXCEPT !.report = Append(@, FinalLine(j, jobs[j]))]
    /\ UNCHANGED <<cache, wk, ex, jobs, task_list>>

\* the function returns after the last line
PollReturns ==
    /\ pl.pc = "report"
    /\ Len(pl.report) = Len(task_list)
    /\ pl' = [pl EXCEPT !.pc = "returned"]
    /\ UNCHANGED <<cache, wk, ex, jobs, task_list>>

PollStep ==
    \/ PollStatus
    \/ EndRound
    \/ PollSleep
    \/ ReportStatus
    \/ PollReturns

\* Most tasks of self.task_list when _wait_for_tasks is called directly.
MaxTasks == 2

\* The tasks, in the order they were started.
TaskOrder == <<<<1, "a">>, <<1, "b">>, <<2, "a">>, <<2, "b">>>>

InitPoll ==
    /\ files = <<>>
    /\ inodes = <<>>
    /\ wk = [w \in Workers |-> IdleWorker]
    /\ ex = IdleCoordinator
    /\ \E n \in 0..MaxTasks :
          /\ task_list = SubSeq(TaskOrder, 1, n)
          /\ jobs = [j \in {TaskOrder[k] : k \in 1..n} |-> ReadyStatus]
    /\ pl = IdlePoll
    /\ rs = IdleResolve
    /\ sc = [c \in Calls |-> IdleScript]
    /\ cr = IdleCredentials

NextPoll ==
    \/ WaitForTasks
    \/ PollStep
    \/ \E j \in Workers : JobAdvance(j)

SpecPoll == InitPoll /\ [][NextPoll]_vars

\* C7 (SpecPoll): with a non-empty task list the loop is left, and the call
\* returns, only after a round that saw every tracked job COMPLETED, FAILED or
\* CANCELED (and every job then is); it sleeps only after a round that saw a
\* job READY or RUNNING.
PollingBlocksUntilAllTerminal ==
    /\ (pl.pc \in {"report", "returned"} /\ task_list # <<>>) =>
          /\ Len(pl.states) = Len(task_list)
          /\ \A k \in 1..Len(task_list) :
                /\ pl.states[k] \in Terminal
                /\ jobs[task_list[k]].state \in Terminal
    /\ pl.pc = "sleep" =>
          \E k \in 1..Len(pl.states) : pl.states[k] \in {"READY", "RUNNING"}

\* C7 witness: the call returned for two jobs after a round that saw both
\* ended, one of them failed.
PollingReturned ==
    /\ pl.pc = "returned"
    /\ Len(task_list) = 2
    /\ pl.states[1] = "FAILED"
    /\ pl.states[2] = "COMPLETED"

\* --------------------------------------------------------- export_tiles
\* Largest max_workers of the pool.
MaxPool == 2
\* Most tasks self.task_list can come to hold in a call that waits.
MaxTracked == 2

\* The workers the current call of export_tiles has submitted.
Submitted == {w \in Workers : w[1] = ex.run /\ TileOf(w) \in ex.ids}

\* export_tiles is called (s2_new.py: with its wait_for_completion):
\* results = {}, one future per tile id is submitted
ExportTiles ==
    /\ ex.pc \in {"idle", "returned"}
    /\ ex.run + 1 \in Calls
    /\ \E wait \in BOOLEAN :
          /\ ex.variant = "fetch" => ~wait
          /\ wait => Len(task_list) + Cardinality(ex.ids) <= MaxTracked
          /\ ex' = [ex EXCEPT !.pc = "collect", !.run = @ + 1,
                              !.wait = wait, !.results = <<>>,
                              !.order = <<>>, !.seen = {}, !.i = 0,
                              !.progress = <<>>]
    /\ wk' = [w \in Workers |->
                IF w[1] = ex.run + 1 /\ TileOf(w) \in ex.ids
                THEN [IdleWorker EXCEPT !.pc = "queued"]
                ELSE wk[w]]
    /\ UNCHANGED <<cache, jobs, task_list, pl>>

\* (mutant) a thread per submitted call, whatever max_workers
StartWorkerUnbounded(w) ==
    /\ wk[w].pc = "queued"
    /\ wk' = [wk EXCEPT ![w] =
                [@ EXCEPT !.pc = IF ex.variant = "fetch" THEN "check"
                                 ELSE "create"]]
    /\ UNCHANGED <<cache, coord>>

\* ThreadPoolExecutor(max_workers): a free thread takes a queued call
StartWorker(w) ==
    /\ wk[w].pc = "queued"
    /\ Cardinality({v \in Workers : Running(v)}) < ex.max_workers
    /\ wk' = [wk EXCEPT ![w] =
                [@ EXCEPT !.pc = IF ex.variant = "fetch" THEN "check"
                                 ELSE "create"]]
    /\ UNCHANGED <<cache, coord>>

\* _create_export_task: getInfo() for the scale, then the task object
CreateTask(w) ==
    /\ wk[w].pc = "create"
    /\ \E r \in RemoteOutcomes :
          wk' = [wk EXCEPT ![w] =
                    IF r = "ok"
                    THEN [@ EXCEPT !.pc = "done", !.outcome = "Task",
                                   !.net = TRUE]
                    ELSE [@ EXCEPT !.pc = "raised", !.err = r, !.net = TRUE]]
    /\ UNCHANGED <<cache, coord>>

\* (mutant) a future already handled can be yielded once more
YieldedNotMarked(w) == [ex EXCEPT !.i = @ + 1]

\* as_completed yields w's future: the enumerate counter advances
Yielded(w) == [ex EXCEPT !.seen = @ \cup {w}, !.i = @ + 1]

\* (mutant) the coordinator lets a worker's exception escape
WorkerErrorRaised(w) == [Yielded(w) EXCEPT !.pc = "raised"]

\* except Exception as e: logger.error(...)
WorkerErrorLogged(w) == Yielded(w)

\* (mutant) an entry for every completed worker, the failed ones included
KeptAlways(w, ok, value) ==
    [Yielded(w) EXCEPT
        !.results = [t \in DOMAIN @ \cup {TileOf(w)} |->
                        IF t = TileOf(w) THEN value ELSE @[t]],
        !.order = Append(@, TileOf(w)),
        !.progress = Append(@, ex.i + 1)]

\* if result: results[s2_id] = result; the progress line is logged
Kept(w, ok, value) ==
    IF ok
    THEN [Yielded(w) EXCEPT
            !.results = [t \in DOMAIN @ \cup {TileOf(w)} |->
                            IF t = TileOf(w) THEN value ELSE @[t]],
            !.order = Append(@, TileOf(w)),
            !.progress = Append(@, ex.i + 1)]
    ELSE [Yielded(w) EXCEPT !.progress = Append(@, ex.i + 1)]

\* future.result() hands over what the call returned or raised; of the
\* finished call only that (and whether it used the network) is kept.
Consumed(w) ==
    [IdleWorker EXCEPT !.pc = wk[w].pc, !.outcome = wk[w].outcome,
                       !.net = wk[w].net]

Collectable(w) ==
    /\ ex.pc = "collect"
    /\ w \in Submitted
    /\ w \notin ex.seen
    /\ wk[w].pc \in {"done", "raised"}

\* s2.py: result = future.result(); if result: results[s2_id] = result
CollectFetched(w) ==
    /\ Collectable(w)
    /\ ex.variant = "fetch"
    /\ ex' = IF wk[w].pc = "raised"
             THEN WorkerErrorLogged(w)
             ELSE Kept(w, wk[w].outcome \in {"Fetched", "Cached"},
                       CacheFile(TileOf(w)))
    /\ wk' = [wk EXCEPT ![w] = Consumed(w)]
    /\ UNCHANGED <<cache, jobs, task_list, pl>>

\* s2_new.py: task = future.result(); task.start(); results[s2_id] = task
CollectCreated(w) ==
    /\ Collectable(w)
    /\ ex.variant = "submit"
    /\ IF wk[w].pc = "raised"
       THEN /\ ex' = WorkerErrorLogged(w)
            /\ jobs' = jobs
       ELSE \E r \in {"ok", "Exception"} :
               IF r = "ok"
               THEN /\ jobs' = [j \in DOMAIN jobs \cup {w} |->
                                  IF j = w THEN ReadyStatus ELSE jobs[j]]
                    /\ ex' = Kept(w, TRUE, w)
               ELSE /\ jobs' = jobs
                    /\ ex' = WorkerErrorLogged(w)
    /\ wk' = [wk EXCEPT ![w] = Consumed(w)]
    /\ UNCHANGED <<cache, task_list, pl>>

\* s2.py: the pool is shut down and results returned
ReturnPaths ==
    /\ ex.pc = "collect"
    /\ ex.variant = "fetch"
    /\ ex.seen = Submitted
    /\ ex' = [ex EXCEPT !.pc = "returned"]
    /\ UNCHANGED <<cache, wk, jobs, task_list, pl>>

\* (mutant) self.task_list = list(results.values()): earlier jobs forgotten
ExtendTaskListReplaced ==
    LET tl == [k \in 1..Len(ex.order) |-> ex.results[ex.order[k]]]
    IN
    /\ ex.pc = "collect"
    /\ ex.variant = "submit"
    /\ ex.seen = Submitted
    /\ task_list' = tl
    /\ IF ex.wait
       THEN /\ pl' = WaitCall(tl)
            /\ ex' = [ex EXCEPT !.pc = "wait"]
       ELSE /\ pl' = pl
            /\ ex' = [ex EXCEPT !.pc = "returned"]
    /\ UNCHANGED <<cache, wk, jobs>>

\* s2_new.py: self.task_list.extend(results.values());
\* if wait_for_completion: self._wait_for_tasks(poll_interval); return results
ExtendTaskList ==
    LET tl == task_list \o [k \in 1..Len(ex.order) |-> ex.results[ex.order[k]]]
    IN
    /\ ex.pc = "collect"
    /\ ex.variant = "submit"
    /\ ex.seen = Submitted
    /\ task_list' = tl
    /\ IF ex.wait
       THEN /\ pl' = WaitCall(tl)
            /\ ex' = [ex EXCEPT !.pc = "wait"]
       ELSE /\ pl' = pl
            /\ ex' = [ex EXCEPT !.pc = "returned"]
    /\ UNCHANGED <<cache, wk, jobs>>

\* _wait_for_tasks has returned: return results
WaitReturns ==
    /\ ex.pc = "wait"
    /\ pl.pc = "returned"
    /\ ex' = [ex EXCEPT !.pc = "returned"]
    /\ UNCHANGED <<cache, wk, jobs, task_list, pl>>

\* The arguments of the calls: the variant of the script, the tile ids, the
\* pool size and (export-submit variant) wait_for_completion.
InitBatch ==
    /\ files = <<>>
    /\ inodes = <<>>
    /\ wk = [w \in Workers |-> IdleWorker]
    /\ \E v \in {"fetch", "submit"}, ids \in SUBSET Tiles,
          n \in 1..MaxPool, wait \in BOOLEAN :
          /\ v = "fetch" => ~wait
          /\ ex = [IdleCoordinator EXCEPT !.variant = v, !.ids = ids,
                                          !.max_workers = n, !.wait = wait]
    /\ jobs = <<>>
    /\ task_list = <<>>
    /\ pl = IdlePoll
    /\ rs = IdleResolve
    /\ sc = [c \in Calls |-> IdleScript]
    /\ cr = IdleCredentials

NextBatch ==
    \/ ExportTiles
    \/ \E w \in Workers :
          \/ StartWorker(w)
          \/ FetchStep(w)
          \/ CreateTask(w)
          \/ CollectFetched(w)
          \/ CollectCreated(w)
    \/ ReturnPaths
    \/ ExtendTaskList
    \/ WaitReturns
    \/ PollStep
    \/ \E j \in Workers : JobAdvance(j)

SpecBatch == InitBatch /\ [][NextBatch]_vars

\* The worker's call produced what export_tiles keeps: a path, a started job.
Succeeded(w) ==
    IF ex.variant = "fetch"
    THEN wk[w].pc = "done" /\ wk[w].outcome \in {"Fetched", "Cached"}
    ELSE wk[w].pc = "done" /\ w \in DOMAIN jobs

\* C1 (SpecBatch): a call that finds the canonical file returns its path
\* without using the network; so in a second export_tiles run on the same
\* tile set, a tile the first run fetched is not downloaded again and its
\* result is the cached path.
FetchIdempotent ==
    ex.variant = "fetch" =>
        \A t \in Tiles :
            /\ \A c \in Calls :
                  wk[<<c, t>>].outcome = "Cached" => ~wk[<<c, t>>].net
            /\ (/\ wk[<<1, t>>].outcome \in {"Fetched", "Cached"}
                /\ wk[<<2, t>>].pc \notin {"idle", "queued", "check"}) =>
                    /\ wk[<<2, t>>].pc = "done"
                    /\ wk[<<2, t>>].outcome = "Cached"
                    /\ ~wk[<<2, t>>].net
                    /\ (ex.run = 2 /\ <<2, t>> \in ex.seen) =>
                            /\ t \in DOMAIN ex.results
                            /\ ex.results[t] = CacheFile(t)

\* C1 witness: the second run returned the cached path of a tile the first
\* run had downloaded.
SecondRunCached ==
    /\ ex.variant = "fetch"
    /\ ex.run = 2
    /\ ex.pc = "returned"
    /\ \E t \in ex.ids :
          /\ wk[<<1, t>>].outcome = "Fetched"
          /\ wk[<<2, t>>].outcome = "Cached"
          /\ ex.results[t] = CacheFile(t)

\* C5 (SpecBatch): in both variants export_tiles never raises, it returns
\* only when every submitted worker has run to its end and been collected,
\* and a worker that succeeded keeps its entry whatever its siblings did.
IsolatedFailures ==
    /\ ex.pc # "raised"
    /\ ex.pc \in {"wait", "returned"} =>
          \A w \in Submitted :
              w \in ex.seen /\ wk[w].pc \in {"done", "raised"}
    /\ \A w \in Submitted :
          (w \in ex.seen /\ Succeeded(w)) => TileOf(w) \in DOMAIN ex.results

\* C5 witness: one worker raised, its sibling's job was started and kept,
\* and export_tiles returned.
OneRaisedOneKept ==
    /\ ex.pc = "returned"
    /\ \E w, v \in Submitted :
          /\ wk[w].pc = "raised"
          /\ Succeeded(v)
          /\ TileOf(v) \in DOMAIN ex.results

MaxPolygons == 2
\* Most identifiers one catalog query returns.
MaxListLen == 2

\* What aggregate_array("system:index").getInfo() can return: a list of ids.
TileLists == UNION {[1..n -> Tiles] : n \in 0..MaxListLen}

Range(list) == {list[k] : k \in 1..Len(list)}

\* (mutant) the set is rebuilt from the last polygon's list
SetReplaced(set, list) == Range(list)

\* s2_ids.update(list)
SetUpdate(set, list) == set \cup Range(list)

\* (mutant) the AOI is not validated: an empty one goes on to the resolution
LoadAoiUnchecked ==
    /\ rs.pc = "idle"
    /\ \E n \in 0..MaxPolygons :
          rs' = [rs EXCEPT !.pc = "query", !.aoi = [k \in 1..n |-> k],
                          !.s2_ids = {}]
    /\ UNCHANGED <<files, inodes, wk, ex, jobs, task_list, pl, sc, cr>>

\* download: aoi = gpd.read_file(aoi_path); an empty AOI raises ValueError;
\* get_s2_tile_ids starts with s2_ids = set()
LoadAoi ==
    /\ rs.pc = "idle"
    /\ \E n \in 0..MaxPolygons :
          rs' = IF n = 0
                THEN [rs EXCEPT !.pc = "raised", !.error = "ValueError"]
                ELSE [rs EXCEPT !.pc = "query", !.aoi = [k \in 1..n |-> k],
                                !.s2_ids = {}]
    /\ UNCHANGED <<files, inodes, wk, ex, jobs, task_list, pl, sc, cr>>

\* gpd.read_file cannot read the file: the exception leaves download
LoadFails ==
    /\ rs.pc = "idle"
    /\ rs' = [rs EXCEPT !.pc = "raised", !.error = "Exception"]
    /\ UNCHANGED <<files, inodes, wk, ex, jobs, task_list, pl, sc, cr>>

\* for _, row in aoi.iterrows(): one catalog query for the row's polygon
QueryPolygon ==
    /\ rs.pc = "query"
    /\ Len(rs.answers) < Len(rs.aoi)
    /\ \E list \in TileLists :
          rs' = [rs EXCEPT
                    !.answers = Append(@, [polygon |-> rs.aoi[Len(@) + 1],
                                           ids |-> list]),
                    !.s2_ids = SetUpdate(@, list),
                    !.requests = @ + 1]
    /\ UNCHANGED <<files, inodes, wk, ex, jobs, task_list, pl, sc, cr>>

\* getInfo() raises: nothing catches it in get_s2_tile_ids or download
QueryFails ==
    /\ rs.pc = "query"
    /\ Len(rs.answers) < Len(rs.aoi)
    /\ rs' = [rs EXCEPT !.pc = "raised", !.error = "EEException",
                        !.requests = @ + 1]
    /\ UNCHANGED <<files, inodes, wk, ex, jobs, task_list, pl, sc, cr>>

\* return s2_ids
ReturnIds ==
    /\ rs.pc = "query"
    /\ Len(rs.answers) = Len(rs.aoi)
    /\ rs' = [rs EXCEPT !.pc = "resolved"]
    /\ UNCHANGED <<files, inodes, wk, ex, jobs, task_list, pl, sc, cr>>

InitResolve == InitFetch

NextResolve ==
    \/ LoadAoi
    \/ LoadFails
    \/ QueryPolygon
    \/ QueryFails
    \/ ReturnIds

SpecResolve == InitResolve /\ [][NextResolve]_vars

\* C8 (SpecResolve): get_s2_tile_ids issues one query per AOI polygon, in
\* row order, and the set it holds (and returns) is exactly the union of the
\* lists the queries returned: nothing returned is absent, nothing else is in
\* it, and a tile returned for several polygons is one element.
UnionOfPolygonQueries ==
    /\ rs.pc \in {"query", "resolved"} =>
          /\ rs.s2_ids = UNION {Range(rs.answers[k].ids) :
                                    k \in 1..Len(rs.answers)}
          /\ \A k \in 1..Len(rs.answers) : rs.answers[k].polygon = rs.aoi[k]
    /\ rs.pc = "resolved" => Len(rs.answers) = Len(rs.aoi)

\* C8 witness: two polygons share tile "b"; the resolved set holds it once.
SharedTileOnce ==
    /\ rs.pc = "resolved"
    /\ Len(rs.aoi) = 2
    /\ rs.answers[1].ids = <<"a", "b">>
    /\ rs.answers[2].ids = <<"b">>
    /\ rs.s2_ids = {"a", "b"}
    /\ Cardinality(rs.s2_ids) = 2

\* ------------------------------------------- more on one fetch (SpecFetch)
\* C11 as claimed (SpecFetch): a response that ends without error and without
\* any payload byte is not a success: nothing is renamed to the canonical
\* path and the call does not return the Fetched outcome.
ZeroByteNotSuccess ==
    \A w \in Workers :
        /\ Fetched(w) => Len(wk[w].wrote) >= 1
        /\ Exists(CacheFile(TileOf(w))) => Len(Content(CacheFile(TileOf(w)))) >= 1

RECURSIVE TotalDelay(_)
\* The time slept in all: the sum of the delays.
TotalDelay(sleeps) ==
    IF sleeps = <<>> THEN 0 ELSE Head(sleeps) + TotalDelay(Tail(sleeps))

\* C12 (SpecFetch): a call in its third attempt (the first two failed in
\* transport) has slept 5 * (k + 1) after failed attempt k, at least
\* 5 * 1 + 5 * 2 in all; when that attempt succeeds the call returns the
\* Fetched outcome and the canonical file holds its payload.
BackoffBeforeSuccess ==
    \A w \in Workers :
        wk[w].attempt = 2 =>
            /\ Len(wk[w].sleeps) = 2
            /\ \A k \in 0..1 : wk[w].sleeps[k + 1] = BaseDelay * (k + 1)
            /\ TotalDelay(wk[w].sleeps) >= BaseDelay * 1 + BaseDelay * 2
            /\ wk[w].pc = "done" /\ wk[w].err = "" =>
                    /\ wk[w].outcome = "Fetched"
                    /\ Exists(CacheFile(TileOf(w)))
                    /\ Content(CacheFile(TileOf(w))) = wk[w].wrote

\* C12 witness: two transport failures, then the third attempt fetched the
\* tile after 15 s of backoff.
ThirdAttemptFetched ==
    \E w \in Workers :
        /\ Fetched(w)
        /\ wk[w].attempt = 2
        /\ TotalDelay(wk[w].sleeps) = 15
        /\ Len(wk[w].wrote) >= 1

\* ------------------------------------------ more on export_tiles (SpecBatch)
\* C13 as claimed (SpecBatch): one progress report per completed worker,
\* whatever its outcome, the reported counts being 1, 2, .. up to the number
\* of workers completed so far (the total, when export_tiles returns).
ProgressOncePerCompletion ==
    /\ ex.progress = [k \in 1..ex.i |-> k]
    /\ ex.pc \in {"wait", "returned"} =>
          Len(ex.progress) = Cardinality(ex.ids)

\* The worker invocations in flight: started and not yet returned.
InFlight == {w \in Workers : Running(w)}

\* C14 (SpecBatch): at every moment the worker invocations in flight, and so
\* the workers that can be making a network request, are at most max_workers.
BoundedConcurrency ==
    /\ Cardinality(InFlight) <= ex.max_workers
    /\ InFlight \subseteq Submitted

\* C14 witness: a pool of one thread is busy while another tile waits.
PoolFullOneQueued ==
    /\ ex.max_workers = 1
    /\ \E w, v \in Submitted :
          /\ wk[w].pc \in {"scale", "url", "get", "stream", "create"}
          /\ wk[v].pc = "queued"

\* -------------------------------- more on get_s2_tile_ids (SpecResolve)
\* C15 as claimed (SpecResolve): a polygon's catalog query that fails is
\* tried again before the resolution fails (so a failed resolution has sent
\* more requests than one per polygon it reached), and a resolution that
\* returns has an answer for every polygon.
QueryFailureRetried ==
    /\ (rs.pc = "raised" /\ rs.error = "EEException") =>
          rs.requests > Len(rs.answers) + 1
    /\ rs.pc = "resolved" => Len(rs.answers) = Len(rs.aoi)

\* --------------------------------- more on _wait_for_tasks (SpecPoll)
\* C16 as claimed (SpecPoll): a job the loop has seen COMPLETED is reported
\* as COMPLETED, and a job seen in a terminal state in one round is not
\* queried again in a later round of the loop.
TerminalJobsLeavePolling ==
    /\ [](\A k \in 1..Len(pl.report) :
            jobs[task_list[k]].state = "COMPLETED" =>
                pl.report[k].state = "COMPLETED")
    /\ [][\A k \in 1..Len(task_list) :
            (/\ pl.pc = "poll"
             /\ pl'.pc = "poll"
             /\ Len(pl.states) = k - 1
             /\ Len(pl'.states) = k) => task_list[k] \notin pl.ended]_vars

\* C17 (SpecPoll): the final report has, for every task it has reached, a
\* line with that task and its state; the line of a FAILED job carries the
\* error message of the job's status when there is one; and when the call
\* returns every task has its line.
FailedJobsKeepMessage ==
    /\ \A k \in 1..Len(pl.report) :
          LET j == task_list[k] IN
          /\ pl.report[k].task = j
          /\ pl.report[k].state = jobs[j].state
          /\ (jobs[j].state = "FAILED" /\ jobs[j].error_message # "") =>
                pl.report[k].message = jobs[j].error_message
    /\ pl.pc = "returned" => Len(pl.report) = Len(task_list)

\* C17 witness: the call returned and reported a FAILED job with its message.
FailedJobReported ==
    /\ pl.pc = "returned"
    /\ \E k \in 1..Len(pl.report) :
          /\ jobs[task_list[k]].state = "FAILED"
          /\ pl.report[k].state = "FAILED"
          /\ pl.report[k].message = "quota exceeded"

\* The polling loop keeps running once _wait_for_tasks is called (the thread
\* is scheduled, time.sleep returns); nothing makes the provider end a job.
SpecPollFair == InitPoll /\ [][NextPoll]_vars /\ WF_vars(PollStep)

Tracked == {task_list[k] : k \in 1..Len(task_list)}

AllJobsTerminal == \A j \in Tracked : jobs[j].state \in Terminal

\* C18 (SpecPollFair): no timeout: while a tracked job never reaches a
\* terminal state the call never returns; and a call that was made returns
\* eventually if every tracked job eventually is COMPLETED, FAILED or
\* CANCELED.
PollingLiveness ==
    /\ \A j \in Workers :
          [](j \in Tracked /\ jobs[j].state \notin Terminal) =>
              [](pl.pc # "returned")
    /\ (pl.pc # "idle" /\ AllJobsTerminal) ~> (pl.pc = "returned")

\* C18 witness: the loop sleeps because a job is still RUNNING while the
\* other has ended.
SleepingOnRunningJob ==
    /\ pl.pc = "sleep"
    /\ \E j, i \in Tracked :
          /\ jobs[j].state = "RUNNING"
          /\ jobs[i].state \in Terminal

\* ------------------------------------ the export scripts (test.py main)
\* The scene identifiers a script run can resolve.
SceneIds == {"a", "b", "c"}
\* test_tiles = list(s2_ids)[:2]
FirstN == 2

\* list(s): the elements of a set of strings in iteration order, which
\* follows the strings' hashes and so differs from one process to the next.
Orderings(set) ==
    {f \in [1..Cardinality(set) -> set] :
        \A i, j \in 1..Cardinality(set) : f[i] = f[j] => i = j}

\* seq[:n]
Prefix(seq, n) == SubSeq(seq, 1, IF Len(seq) < n THEN Len(seq) ELSE n)

\* the loop over the AOI rows has filled s2_ids
ScriptResolve(c) ==
    /\ sc[c].pc = "idle"
    /\ \E ids \in SUBSET SceneIds :
          sc' = [sc EXCEPT ![c] = [@ EXCEPT !.pc = "resolved", !.s2_ids = ids]]
    /\ UNCHANGED <<files, inodes, wk, ex, jobs, task_list, pl, rs, cr>>

\* test_tiles = list(s2_ids)[:2]
ScriptTake(c) ==
    /\ sc[c].pc = "resolved"
    /\ \E order \in Orderings(sc[c].s2_ids) :
          sc' = [sc EXCEPT ![c] =
                    [@ EXCEPT !.pc = "taken",
                              !.test_tiles = Prefix(order, FirstN)]]
    /\ UNCHANGED <<files, inodes, wk, ex, jobs, task_list, pl, rs, cr>>

InitScript == InitFetch

NextScript == \E c \in Calls : ScriptResolve(c) \/ ScriptTake(c)

SpecScript == InitScript /\ [][NextScript]_vars

\* C19 as claimed (SpecScript): two runs that resolve the same set of tile
\* ids select the same subset of it.
SameSetSameSubset ==
    \A c, d \in Calls :
        (/\ sc[c].pc = "taken"
         /\ sc[d].pc = "taken"
         /\ sc[c].s2_ids = sc[d].s2_ids) =>
            Range(sc[c].test_tiles) = Range(sc[d].test_tiles)

\* --------------------------------------- leftover temporary files (SpecFetch)
\* C20 (SpecFetch): a leftover <tile>.tmp is never taken for the artifact: a
\* call returns the cached outcome only when <tile>.tif exists, a call that
\* fetched has used the network, and what the canonical file holds is the
\* chunks 1, 2, .. of one attempt of one call, with no byte of another
\* attempt's (leftover) temporary file.
LeftoverTempIsGarbage ==
    /\ \A w \in Workers :
          /\ wk[w].outcome = "Cached" => Exists(CacheFile(TileOf(w)))
          /\ Fetched(w) => wk[w].net
    /\ \A t \in Tiles :
          Exists(CacheFile(t)) =>
              \E c \in Calls, att \in 0..(MaxRetries - 1) :
                  Content(CacheFile(t)) =
                      [k \in 1..Len(Content(CacheFile(t))) |->
                          Chunk(<<c, t>>, att, k)]

\* C20 witness: the first call was abandoned and left <tile>.tmp behind; the
\* second call wrote its payload over that file and renamed it, so the
\* canonical name is the file the first call created, holding only the
\* second call's payload.
LeftoverTempOverwritten ==
    \E t \in Tiles :
        /\ wk[<<1, t>>].pc = "killed" \/ Failed(<<1, t>>)
        /\ Fetched(<<2, t>>)
        /\ Exists(CacheFile(t))
        /\ files[CacheFile(t)][1] = 1
        /\ Len(Content(CacheFile(t))) >= 1
        /\ Content(CacheFile(t)) = wk[<<2, t>>].wrote

\* ------------------------------------------------- download, end to end
\* results = exporter.export_tiles(s2_ids): the resolved set is dispatched;
\* the locals of get_s2_tile_ids are gone.
DownloadExport ==
    /\ rs.pc = "resolved"
    /\ ex.pc = "idle"
    /\ ex' = [ex EXCEPT !.pc = "collect", !.ids = rs.s2_ids, !.run = 1]
    /\ wk' = [w \in Workers |->
                IF w[1] = 1 /\ TileOf(w) \in rs.s2_ids
                THEN [IdleWorker EXCEPT !.pc = "queued"]
                ELSE wk[w]]
    /\ rs' = [rs EXCEPT !.pc = "exporting", !.answers = <<>>]
    /\ UNCHANGED <<files, inodes, jobs, task_list, pl, sc, cr>>

\* export_tiles has returned: the count of results is logged, download ends
DownloadReturns ==
    /\ rs.pc = "exporting"
    /\ ex.pc = "returned"
    /\ rs' = [rs EXCEPT !.pc = "done"]
    /\ UNCHANGED <<files, inodes, wk, ex, jobs, task_list, pl, sc, cr>>

\* download(..., max_workers) of s2.py (fetch) or of s2_new.py (export-submit
\* with wait_for_completion=True), on an empty cache directory.
InitDownload ==
    /\ files = <<>>
    /\ inodes = <<>>
    /\ wk = [w \in Workers |-> IdleWorker]
    /\ \E v \in {"fetch", "submit"}, n \in 1..MaxPool :
          ex = [IdleCoordinator EXCEPT !.variant = v, !.max_workers = n,
                                       !.wait = (v = "submit")]
    /\ jobs = <<>>
    /\ task_list = <<>>
    /\ pl = IdlePoll
    /\ rs = IdleResolve
    /\ sc = [c \in Calls |-> IdleScript]
    /\ cr = IdleCredentials

NextDownload ==
    \/ LoadAoi
    \/ LoadFails
    \/ QueryPolygon
    \/ QueryFails
    \/ ReturnIds
    \/ DownloadExport
    \/ \E w \in Workers :
          \/ StartWorker(w)
          \/ FetchStep(w)
          \/ CreateTask(w)
          \/ CollectFetched(w)
          \/ CollectCreated(w)
    \/ ReturnPaths
    \/ ExtendTaskList
    \/ WaitReturns
    \/ PollStep
    \/ \E j \in Workers : JobAdvance(j)
    \/ DownloadReturns

SpecDownload == InitDownload /\ [][NextDownload]_vars

\* No tile has been dispatched, fetched or submitted, no file written.
NoTileWork ==
    /\ ex.pc = "idle"
    /\ \A w \in Workers : wk[w] = IdleWorker
    /\ files = <<>>
    /\ jobs = <<>>
    /\ task_list = <<>>

\* C21 (SpecDownload): once an AOI with zero features has been loaded,
\* download has raised ValueError: no catalog query was or is issued, nothing
\* is retried, and no tile is fetched and no export job submitted.
EmptyAoiIsFatal ==
    (rs.pc # "idle" /\ rs.aoi = <<>> /\ rs.error # "Exception") =>
        /\ rs.pc = "raised"
        /\ rs.error = "ValueError"
        /\ rs.requests = 0
        /\ NoTileWork

\* C21 witness: download has raised on an empty AOI.
EmptyAoiRaised ==
    /\ rs.pc = "raised"
    /\ rs.error = "ValueError"
    /\ rs.aoi = <<>>
    /\ NoTileWork

\* --------------------------------------------- init_ee_from_credentials
\* What credentials.json can hold: nothing (no file), text that is not JSON,
\* JSON with a token the provider accepts, JSON with a token it rejects.
FileContents == {"absent", "garbage", "good", "stale"}
\* project: Optional[str]
Projects == {"", "uiuc-ncsa-permafrost"}

OptUrl(highvolume) ==
    IF highvolume THEN "https://earthengine-highvolume.googleapis.com" ELSE ""

\* One call to the provider, or one write of the credentials file.
Event(call, ok) ==
    [call |-> call, ok |-> ok, project |-> cr.project,
     opt_url |-> OptUrl(cr.highvolume)]

\* The credentials ee.Initialize finds are usable: the token of the
\* environment if there is one, else the provider's own persistent ones.
Usable ==
    IF cr.token # "" THEN cr.token \in {"good", "new"} ELSE cr.ambient

\* (mutant) a file that is not JSON is passed over like a missing one
LoadCredentialsLenient ==
    /\ cr.pc = "load"
    /\ cr' = IF cr.file \in {"absent", "garbage"}
             THEN [cr EXCEPT !.pc = "init"]
             ELSE [cr EXCEPT !.pc = "init", !.token = cr.file]
    /\ UNCHANGED <<files, inodes, wk, ex, jobs, task_list, pl, rs, sc>>

\* if credentials_path.exists(): json.load(f), EARTHENGINE_TOKEN is set;
\* JSONDecodeError -> raise ValueError
LoadCredentials ==
    /\ cr.pc = "load"
    /\ cr' = IF cr.file = "absent" THEN [cr EXCEPT !.pc = "init"]
             ELSE IF cr.file = "garbage"
             THEN [cr EXCEPT !.pc = "raised", !.error = "ValueError"]
             ELSE [cr EXCEPT !.pc = "init", !.token = cr.file]
    /\ UNCHANGED <<files, inodes, wk, ex, jobs, task_list, pl, rs, sc>>

\* try: ee.Initialize(project, opt_url); on any exception the token is
\* removed from the environment and the fallback begins
Initialize ==
    /\ cr.pc = "init"
    /\ \E ok \in {u \in BOOLEAN : u => Usable} :
          cr' = IF ok
                THEN [cr EXCEPT !.pc = "done",
                                !.trace = Append(@, Event("Initialize", TRUE))]
                ELSE [cr EXCEPT !.pc = "auth", !.token = "",
                                !.trace = Append(@, Event("Initialize", FALSE))]
    /\ UNCHANGED <<files, inodes, wk, ex, jobs, task_list, pl, rs, sc>>

\* ee.Authenticate(auth_mode="notebook"): the interactive flow; when it
\* fails its exception leaves the function
Authenticate ==
    /\ cr.pc = "auth"
    /\ \E ok \in BOOLEAN :
          cr' = IF ok
                THEN [cr EXCEPT !.pc = "save", !.ambient = TRUE,
                                !.trace = Append(@, Event("Authenticate", TRUE))]
                ELSE [cr EXCEPT !.pc = "raised", !.error = "Exception",
                                !.trace = Append(@, Event("Authenticate", FALSE))]
    /\ UNCHANGED <<files, inodes, wk, ex, jobs, task_list, pl, rs, sc>>

\* (mutant) the new credentials are not written to the file
SaveCredentialsSkipped ==
    /\ cr.pc = "save"
    /\ cr' = [cr EXCEPT !.pc = "reinit"]
    /\ UNCHANGED <<files, inodes, wk, ex, jobs, task_list, pl, rs, sc>>

\* json.dump(ee.data.get_persistent_credentials(), f)
SaveCredentials ==
    /\ cr.pc = "save"
    /\ cr' = [cr EXCEPT !.pc = "reinit", !.file = "new",
                        !.trace = Append(@, Event("Write", TRUE))]
    /\ UNCHANGED <<files, inodes, wk, ex, jobs, task_list, pl, rs, sc>>

\* ee.Initialize(project, opt_url) again; its exception leaves the function
Reinitialize ==
    /\ cr.pc = "reinit"
    /\ \E ok \in BOOLEAN :
          cr' = IF ok
                THEN [cr EXCEPT !.pc = "done",
                                !.trace = Append(@, Event("Initialize", TRUE))]
                ELSE [cr EXCEPT !.pc = "raised", !.error = "Exception",
                                !.trace = Append(@, Event("Initialize", FALSE))]
    /\ UNCHANGED <<files, inodes, wk, ex, jobs, task_list, pl, rs, sc>>

\* The call and its arguments; ambient: the provider's own credential store
\* (left by an earlier authentication) holds usable credentials.
InitCredentials ==
    /\ files = <<>>
    /\ inodes = <<>>
    /\ wk = [w \in Workers |-> IdleWorker]
    /\ ex = IdleCoordinator
    /\ jobs = <<>>
    /\ task_list = <<>>
    /\ pl = IdlePoll
    /\ rs = IdleResolve
    /\ sc = [c \in Calls |-> IdleScript]
    /\ \E c \in FileContents, a \in BOOLEAN, p \in Projects, h \in BOOLEAN :
          cr = [IdleCredentials EXCEPT !.pc = "load", !.given = c, !.file = c,
                                       !.ambient = a, !.project = p,
                                       !.highvolume = h]

NextCredentials ==
    \/ LoadCredentials
    \/ Initialize
    \/ Authenticate
    \/ SaveCredentials
    \/ Reinitialize

SpecCredentials == InitCredentials /\ [][NextCredentials]_vars

CallsOf(trace) == [k \in 1..Len(trace) |-> trace[k].call]

CacheEntriesStable ==
    [][\A t \in Tiles :
        Exists(CacheFile(t)) =>
            /\ CacheFile(t) \in DOMAIN files'
            /\ inodes'[files'[CacheFile(t)]] = Content(CacheFile(t))]_vars

\* ------------------------------------- the result mapping (SpecBatch)
\* The worker of the current call for tile t.
WorkerOf(t) == <<ex.run, t>>

\* C25 (SpecBatch): within one export_tiles call every worker invocation
\* belongs to a tile id of the input set, one per tile id; the keys written
\* to the result mapping are pairwise distinct, each written once, on the
\* completion of that tile's own worker and with that worker's outcome, and
\* an entry once written is not written again.
DistinctResultSlots ==
    /\ [](/\ \A w \in Workers :
                (w[1] = ex.run /\ wk[w].pc # "idle") => w \in Submitted
          /\ \A t \in ex.ids :
                ex.pc # "idle" =>
                    {w \in Submitted : TileOf(w) = t} = {WorkerOf(t)}
          /\ \A i, j \in 1..Len(ex.order) :
                ex.order[i] = ex.order[j] => i = j
          /\ Range(ex.order) = DOMAIN ex.results
          /\ \A t \in DOMAIN ex.results :
                /\ WorkerOf(t) \in ex.seen
                /\ Succeeded(WorkerOf(t))
                /\ ex.results[t] = IF ex.variant = "fetch" THEN CacheFile(t)
                                   ELSE WorkerOf(t))
    /\ [][ex'.run = ex.run =>
            \A t \in DOMAIN ex.results :
                /\ t \in DOMAIN ex'.results
                /\ ex'.results[t] = ex.results[t]
                /\ Len(ex'.order) <= Len(ex.order) + 1]_vars

\* C25 witness: both tiles of a call have their entry, each from its worker.
TwoSlotsFilled ==
    /\ DOMAIN ex.results = Tiles
    /\ Len(ex.order) = 2
    /\ \A t \in Tiles : WorkerOf(t) \in ex.seen

\* C26 (SpecBatch): in the fetch variant every key of the result mapping is
\* a tile id of the input set, its value is <cache_dir>/<tile>.tif and a file
\* exists at that path; a tile whose worker returned None has no entry.
FetchResultsSound ==
    ex.variant = "fetch" =>
        /\ \A t \in DOMAIN ex.results :
              /\ t \in ex.ids
              /\ ex.results[t] = CacheFile(t)
              /\ Exists(CacheFile(t))
        /\ \A w \in Submitted :
              (wk[w].pc = "raised" \/ wk[w].outcome = "Failed") =>
                  TileOf(w) \notin DOMAIN ex.results

\* C26 witness: a fetch call returned one path, whose file exists, and has
\* no entry for the tile that failed.
PathReturnedFileExists ==
    /\ ex.variant = "fetch"
    /\ ex.pc = "returned"
    /\ ex.ids = Tiles
    /\ \E t \in Tiles :
          /\ DOMAIN ex.results = {t}
          /\ ex.results[t] = CacheFile(t)
          /\ Exists(CacheFile(t))

\* ---------------------------------------- retries of one call (SpecFetch)
\* C27 (SpecFetch): every attempt starts from an empty temporary file, and
\* the canonical file of a call that fetched holds exactly the non-empty
\* chunks 1, 2, .. of its successful attempt, in arrival order, and nothing
\* an earlier failed attempt wrote.
RetryStartsFromEmptyTemp ==
    /\ [](\A w \in Workers :
            Fetched(w) =>
                /\ wk[w].wrote = [k \in 1..Len(wk[w].wrote) |->
                                    Chunk(w, wk[w].attempt, k)]
                /\ Exists(CacheFile(TileOf(w)))
                /\ Content(CacheFile(TileOf(w))) = wk[w].wrote)
    /\ [][\A w \in Workers :
            (wk[w].pc = "open" /\ wk'[w].pc = "stream") =>
                inodes'[wk'[w].hino] = <<>>]_vars

\* C27 witness: an attempt failed after writing part of the payload, a later
\* attempt of the same call succeeded, and the canonical file holds only the
\* later attempt's chunks.
FetchedAfterPartialWrite ==
    \E w \in Workers :
        /\ Fetched(w)
        /\ wk[w].partial
        /\ wk[w].attempt >= 1
        /\ Len(wk[w].wrote) >= 1
        /\ Content(CacheFile(TileOf(w))) = wk[w].wrote

\* ------------------------------ export submission bookkeeping (SpecBatch)
\* C28 (SpecBatch): in the export-submit variant, when export_tiles is past
\* its loop every entry of the mapping is the started job of a tile id of the
\* input set and a tile whose creation or start raised has none; a started
\* job is never started again and is in task_list at most once; the call
\* extends task_list by exactly the jobs of its mapping, after what it held;
\* a call that waited returns with every job of task_list terminal, those of
\* earlier calls included; and no status is polled unless the call waits.
SubmissionBookkeeping ==
    /\ [](ex.variant = "submit" =>
            /\ ex.pc \in {"wait", "returned"} =>
                  /\ \A t \in DOMAIN ex.results :
                        /\ t \in ex.ids
                        /\ ex.results[t] = WorkerOf(t)
                        /\ WorkerOf(t) \in DOMAIN jobs
                  /\ \A w \in Submitted :
                        (wk[w].pc = "raised" \/ w \notin DOMAIN jobs) =>
                            TileOf(w) \notin DOMAIN ex.results
            /\ \A i, j \in 1..Len(task_list) :
                  task_list[i] = task_list[j] => i = j
            /\ Tracked \subseteq DOMAIN jobs
            /\ (ex.pc = "returned" /\ ex.wait) => AllJobsTerminal)
    /\ [][/\ \A j \in DOMAIN jobs :
                /\ j \in DOMAIN jobs'
                /\ jobs'[j] = ReadyStatus => jobs[j] = ReadyStatus
          /\ task_list' # task_list =>
                /\ ex.pc = "collect"
                /\ ex'.pc \in {"wait", "returned"}
                /\ SubSeq(task_list', 1, Len(task_list)) = task_list
                /\ Len(task_list') =
                        Len(task_list) + Cardinality(DOMAIN ex.results)
                /\ {task_list'[k] : k \in (Len(task_list) + 1)..Len(task_list')}
                        = {ex.results[t] : t \in DOMAIN ex.results}
          /\ (ex.pc = "collect" /\ ex'.pc \in {"wait", "returned"}
                    /\ ex.variant = "submit") =>
                SubSeq(task_list', 1, Len(task_list)) = task_list
          /\ pl' # pl => (ex.wait /\ ex.variant = "submit")]_vars

\* C28 witness: the second call waited and returned with the jobs of both
\* calls in task_list, all terminal and all in its final report.
LaterCallWaitedForEarlierJobs ==
    /\ ex.variant = "submit"
    /\ ex.run = 2
    /\ ex.pc = "returned"
    /\ ex.wait
    /\ Len(task_list) >= 2
    /\ task_list[1][1] = 1
    /\ task_list[Len(task_list)][1] = 2
    /\ AllJobsTerminal
    /\ pl.pc = "returned"
    /\ Len(pl.report) = Len(task_list)
    /\ pl.report[1].task = task_list[1]

====
